---- MODULE Spec2Model ----
(***************************************************************************)
(* rspass: the command surface (src/main.rs), the path validator and the   *)
(* vault listing (src/validators.rs) and the sync coordinator              *)
(* (src/sync.rs), over a vault store and a transport that live in the      *)
(* rspass_core crate.                                                      *)
(*                                                                         *)
(* A string is a sequence of one-character strings, so that split, join,   *)
(* starts_with, lines and pop are computed character by character.         *)
(***************************************************************************)
EXTENDS Integers, Sequences, FiniteSets, TLC

VARIABLES fs, git, last

vars == <<fs, git, last>>

(***************************************************************************)
(* Bounds of the model.                                                    *)
(***************************************************************************)
\* the largest number of entries the insert and sync config commands let the
\* vault directory hold (the .git entries included)
MaxFiles == 4

\* the largest number of metadata lines the edit command lets a record grow to
MaxMeta == 2

(***************************************************************************)
(* String primitives (Rust str / String).                                  *)
(***************************************************************************)
LF == "\n"
CR == "\r"
SLASH == "/"
EQ == "="

\* str::starts_with
StartsWith(s, p) ==
    /\ Len(p) <= Len(s)
    /\ SubSeq(s, 1, Len(p)) = p

\* str::ends_with
EndsWith(s, p) ==
    /\ Len(p) <= Len(s)
    /\ SubSeq(s, Len(s) - Len(p) + 1, Len(s)) = p

\* String::pop: drops the last character (nothing to drop on "")
Pop(s) ==
    IF Len(s) = 0 THEN s ELSE SubSeq(s, 1, Len(s) - 1)

\* str::find: the least position where pat occurs in s, 0 when it does not
Find(s, pat) ==
    LET least(hits) == IF hits = {} THEN 0 ELSE CHOOSE i \in hits : \A j \in hits : i <= j
    IN  least({i \in 1..(Len(s) - Len(pat) + 1) : SubSeq(s, i, i + Len(pat) - 1) = pat})

\* str::split(sep) for a one-character separator: "" gives [""], "a/" gives ["a", ""]
RECURSIVE Split(_, _)
Split(s, sep) ==
    LET at(i) == IF i = 0 THEN <<s>>
                 ELSE <<SubSeq(s, 1, i - 1)>> \o Split(SubSeq(s, i + 1, Len(s)), sep)
    IN  at(Find(s, <<sep>>))

\* slice::join(sep)
RECURSIVE Join(_, _)
Join(parts, sep) ==
    IF Len(parts) = 0 THEN <<>>
    ELSE IF Len(parts) = 1 THEN parts[1]
    ELSE parts[1] \o <<sep>> \o Join(Tail(parts), sep)

\* str::split_once(sep): <<>> for None, <<before, after>> for Some
SplitOnce(s, sep) ==
    LET at(i) == IF i = 0 THEN <<>>
                 ELSE <<SubSeq(s, 1, i - 1), SubSeq(s, i + 1, Len(s))>>
    IN  at(Find(s, <<sep>>))

\* str::splitn(2, pat): one part when pat does not occur, else two
SplitN2(s, pat) ==
    LET at(i) == IF i = 0 THEN <<s>>
                 ELSE <<SubSeq(s, 1, i - 1), SubSeq(s, i + Len(pat), Len(s))>>
    IN  at(Find(s, pat))

\* str::lines: split at "\n", no empty last line after a final "\n", and a
\* "\r" right before the "\n" belongs to the line ending
Lines(s) ==
    LET strip(l, last_) == IF ~last_ /\ EndsWith(l, <<CR>>) THEN Pop(l) ELSE l
        of(raw) ==
            LET n == IF raw[Len(raw)] = <<>> THEN Len(raw) - 1 ELSE Len(raw)
            IN  [i \in 1..n |-> strip(raw[i], i = Len(raw))]
    IN  of(Split(s, LF))

\* the elements of a sequence
Range(q) == {q[i] : i \in 1..Len(q)}

\* a set as a sequence, in some order
RECURSIVE SetToSeq(_)
SetToSeq(S) ==
    IF S = {} THEN <<>>
    ELSE LET x == CHOOSE y \in S : TRUE
         IN  <<x>> \o SetToSeq(S \ {x})

\* Option<T>
None == [some |-> FALSE]
Some(x) == [some |-> TRUE, v |-> x]

(***************************************************************************)
(* The vault directory.  fs maps the name of every regular file below the  *)
(* vault root (relative, segments joined by "/") to its content; a         *)
(* directory exists while a file lives below it.                           *)
(***************************************************************************)
\* the vault root, as get_repo_path() returns it
RepoPath == <<"/", "h", "/", "r", "s", "p", "a", "s", "s">>

\* the name of the version-control metadata directory
DotGit == <<".", "g", "i", "t">>

\* PathBuf::push: an absolute argument replaces the path
Push(base, value) ==
    IF StartsWith(value, <<SLASH>>) THEN value ELSE base \o <<SLASH>> \o value

\* Path::ends_with(".git"): the last component is .git
PathEndsWithGit(path) ==
    LET last_of(comps) == comps[Len(comps)]
    IN  last_of(Split(path, SLASH)) = DotGit

\* the name, relative to the vault root, of an absolute path (None outside it)
Relative(abs) ==
    IF abs = RepoPath THEN Some(<<>>)
    ELSE IF StartsWith(abs, RepoPath \o <<SLASH>>)
         THEN Some(SubSeq(abs, Len(RepoPath) + 2, Len(abs)))
         ELSE None

\* the files of f below the directory named rel, each by its name relative to rel
Below(f, rel) ==
    IF rel = <<>> THEN DOMAIN f
    ELSE {SubSeq(k, Len(rel) + 2, Len(k)) : k \in {n \in DOMAIN f : StartsWith(n, rel \o <<SLASH>>)}}

\* std::fs::read_dir: the entries right below a directory, in the file system's
\* order; None when the directory cannot be read
read_dir(f, dir) ==
    LET entries(rel, below) ==
            LET entry(n) == [path   |-> dir \o <<SLASH>> \o n,
                             is_dir |-> n \notin below]
            IN  IF rel # <<>> /\ below = {} THEN None
                ELSE Some(SetToSeq({entry(Split(r, SLASH)[1]) : r \in below}))
        at(rel) == IF ~rel.some THEN None ELSE entries(rel.v, Below(f, rel.v))
    IN  at(Relative(dir))

(***************************************************************************)
(* src/validators.rs                                                       *)
(***************************************************************************)
File(s) == [kind |-> "File", path |-> s]
Dir(s) == [kind |-> "Dir", path |-> s]

\* the item a conversion that indexes past the end of parts would have made
Panicked == [kind |-> "Panic", path |-> <<>>]

is_dir(item) == item.kind = "Dir"

inner(item) == item.path

matches(item, value) == inner(item) = value

RspassSlash == <<"r", "s", "p", "a", "s", "s", "/">>

\* impl From<DirEntry> for CredentialItem
FromDirEntry(value) ==
    LET of(parts) == IF Len(parts) < 2 THEN Panicked
                     ELSE IF value.is_dir THEN Dir(parts[2]) ELSE File(parts[2])
    IN  of(SplitN2(value.path, RspassSlash))

RECURSIVE list_credentials(_, _, _)
RECURSIVE list_entries(_, _, _)

\* the flat_map closure of list_credentials over the entries of one directory
list_entries(f, entries, recursive) ==
    IF Len(entries) = 0 THEN <<>>
    ELSE LET value == entries[1]
             nested(item, sub) == IF sub.some THEN sub.v \o <<item>> ELSE <<>>
             one(item) ==
                 IF recursive /\ is_dir(item)
                 THEN nested(item, list_credentials(f, Some(value.path), recursive))
                 ELSE <<item>>
             here == IF PathEndsWithGit(value.path) THEN <<>>
                     ELSE one(FromDirEntry(value))
         IN  here \o list_entries(f, Tail(entries), recursive)

list_credentials(f, path, recursive) ==
    LET repo == IF path.some THEN Push(RepoPath, path.v) ELSE RepoPath
        of(rd) == IF ~rd.some THEN None ELSE Some(list_entries(f, rd.v, recursive))
    IN  of(read_dir(f, repo))

\* CredentialValuesParser::all
all(f) ==
    LET of(items) == IF items.some THEN items.v ELSE <<>>
    IN  of(list_credentials(f, None, TRUE))

\* CredentialValuesParser::dirs
dirs(f) ==
    LET of(items) == IF items.some THEN SelectSeq(items.v, is_dir) ELSE <<>>
    IN  of(list_credentials(f, None, TRUE))

\* CredentialValuesParser::files
files(f) ==
    LET not_dir(i) == ~is_dir(i)
        of(items) == IF items.some THEN SelectSeq(items.v, not_dir) ELSE <<>>
    IN  of(list_credentials(f, None, TRUE))

\* filter_by_base taking every query for one without a base
filter_by_base_unscoped(self, value) ==
    LET keep(item) == TRUE
    IN  SelectSeq(self, keep)

\* CredentialValuesParser::filter_by_base
filter_by_base(self, value) ==
    LET base_of(parts) == Join(SubSeq(parts, 1, Len(parts) - 1), SLASH)
        filter(base) == LET keep(item) == StartsWith(inner(item), base)
                        IN  SelectSeq(self, keep)
    IN  filter(base_of(Split(value, SLASH)))

\* parse comparing the argument as typed, trailing "/" included
parse_as_typed(self, arg) ==
    IF \E i \in 1..Len(self) : matches(self[i], arg)
    THEN [ok |-> TRUE, value |-> arg, possible |-> <<>>]
    ELSE [ok |-> FALSE, value |-> arg, possible |-> filter_by_base(self, arg)]

\* TypedValueParser::parse for CredentialValuesParser, on a UTF-8 argument
parse(self, arg) ==
    LET value == IF EndsWith(arg, <<SLASH>>) THEN Pop(arg) ELSE arg
    IN  IF \E i \in 1..Len(self) : matches(self[i], value)
        THEN [ok |-> TRUE, value |-> value, possible |-> <<>>]
        ELSE [ok |-> FALSE, value |-> value, possible |-> filter_by_base(self, value)]

(***************************************************************************)
(* rspass_core: the record format, the encryption engine, the vault store  *)
(* and the transport.                                                      *)
(***************************************************************************)
\* the passphrase of the PGP key the vault was initialised with
Passphrase == <<"k">>

Ok(x) == [res |-> "Ok", v |-> x]
Err(kind) == [res |-> kind, v |-> <<>>]

\* the text of a record: the secret, then one key=value line per metadata entry
RECURSIVE encode_metadata(_)
encode_metadata(meta) ==
    IF Len(meta) = 0 THEN <<>>
    ELSE <<LF>> \o meta[1][1] \o <<EQ>> \o meta[1][2] \o encode_metadata(Tail(meta))

encode(record) ==
    IF LF \in Range(record.secret) THEN Err("InvalidSecret")
    ELSE Ok(record.secret \o encode_metadata(record.meta))

\* the record of a text: a line without "=" after the first is malformed
decode(text) ==
    LET of(secret, meta) ==
            IF \E i \in 1..Len(meta) : meta[i] = <<>> THEN Err("MalformedRecord")
            ELSE Ok([secret |-> secret, meta |-> meta])
        split(lines) ==
            of(lines[1], [i \in 1..(Len(lines) - 1) |-> SplitOnce(lines[i + 1], EQ)])
    IN  split(Split(text, LF))

encrypt(plaintext) == [kind |-> "pgp", plain |-> plaintext]

decrypt(data, passphrase) ==
    IF data.kind = "pgp" /\ passphrase = Passphrase THEN Ok(data.plain)
    ELSE Err("EncryptionFailure")

\* a path names a directory of f
IsDir(f, path) == \E n \in DOMAIN f : StartsWith(n, path \o <<SLASH>>)

\* a File or a Dir occupies the path
Occupied(f, path) == path \in DOMAIN f \/ IsDir(f, path)

\* a VaultPath: no empty segment, no "." and no ".."
ValidPath(path) ==
    \A seg \in Range(Split(path, SLASH)) : seg \notin {<<>>, <<".">>, <<".", ".">>}

\* a File sits where the path needs a directory
BlockedByFile(f, path) ==
    \E i \in 1..Len(path) : path[i] = SLASH /\ SubSeq(path, 1, i - 1) \in DOMAIN f

\* the value of a metadata key, <<>> for None and <<value>> for Some
Lookup(meta, key) ==
    LET hits == {i \in 1..Len(meta) : meta[i][1] = key}
    IN  IF hits = {} THEN <<>> ELSE <<meta[CHOOSE i \in hits : TRUE][2]>>

\* one operation of a MetadataPatch: op = <<key, None>> deletes, <<key, Some(v)>> sets
apply_op(meta, op) ==
    LET other(e) == e[1] # op[1]
    IN  IF ~op[2].some THEN SelectSeq(meta, other)
        ELSE IF Lookup(meta, op[1]) = <<>> THEN Append(meta, <<op[1], op[2].v>>)
        ELSE [i \in 1..Len(meta) |->
                 IF meta[i][1] = op[1] THEN <<op[1], op[2].v>> ELSE meta[i]]

RECURSIVE apply_patch(_, _)
apply_patch(meta, patch) ==
    IF Len(patch) = 0 THEN meta
    ELSE apply_patch(apply_op(meta, patch[1]), Tail(patch))

\* a store operation's outcome: its result and the vault directory it leaves
Outcome(r, f) == [res |-> r.res, v |-> r.v, fs |-> f]

\* insert_credential(name, password, metadata); engine: the encryption succeeds
insert_credential(f, name, password, metadata, engine) ==
    LET write(text) ==
            IF text.res # "Ok" THEN Outcome(text, f)
            ELSE IF ~engine THEN Outcome(Err("EncryptionFailure"), f)
            ELSE Outcome(Ok(<<>>), (name :> encrypt(text.v)) @@ f)
    IN  IF ~ValidPath(name) THEN Outcome(Err("InvalidPath"), f)
        ELSE IF Occupied(f, name) THEN Outcome(Err("AlreadyExists"), f)
        ELSE IF BlockedByFile(f, name) THEN Outcome(Err("IoFailure"), f)
        ELSE write(encode([secret |-> password,
                           meta   |-> IF metadata.some THEN metadata.v ELSE <<>>]))

\* get_credential(name, password, full)
get_credential(f, name, password, full) ==
    IF name \notin DOMAIN f THEN Err("NotFound")
    ELSE LET show(record) ==
                 IF record.res # "Ok" THEN Err(record.res)
                 ELSE IF full THEN encode(record.v)
                 ELSE Ok(record.v.secret)
             open(plain) == IF plain.res # "Ok" THEN plain ELSE show(decode(plain.v))
         IN  open(decrypt(f[name], password))

\* edit_credential(name, pgp_password, new_password, metadata)
edit_credential(f, name, password, new_password, metadata, engine) ==
    IF name \notin DOMAIN f THEN Outcome(Err("NotFound"), f)
    ELSE IF ~new_password.some /\ ~metadata.some THEN Outcome(Err("NoChange"), f)
    ELSE LET write(text) ==
                 IF text.res # "Ok" THEN Outcome(text, f)
                 ELSE IF ~engine THEN Outcome(Err("EncryptionFailure"), f)
                 ELSE Outcome(Ok(<<>>), [f EXCEPT ![name] = encrypt(text.v)])
             edit(record) ==
                 IF record.res # "Ok" THEN Outcome(Err(record.res), f)
                 ELSE write(encode(
                     [secret |-> IF new_password.some THEN new_password.v
                                 ELSE record.v.secret,
                      meta   |-> IF metadata.some
                                 THEN apply_patch(record.v.meta, metadata.v)
                                 ELSE record.v.meta]))
             open(plain) ==
                 IF plain.res # "Ok" THEN Outcome(plain, f) ELSE edit(decode(plain.v))
         IN  open(decrypt(f[name], password))

\* f without the file called name
Without(f, name) == [n \in DOMAIN f \ {name} |-> f[n]]

\* remove_credential(name)
remove_credential(f, name) ==
    IF name \notin DOMAIN f THEN Outcome(Err("NotFound"), f)
    ELSE Outcome(Ok(<<>>), Without(f, name))

\* the name a file gets when source is renamed to destination
Renamed(n, source, destination) ==
    IF n = source THEN destination
    ELSE IF StartsWith(n, source \o <<SLASH>>)
         THEN destination \o SubSeq(n, Len(source) + 1, Len(n))
         ELSE n

\* move_credential(target, destination): a File is renamed, a Dir with all below it
move_credential(f, source, destination) ==
    LET moved == {Renamed(n, source, destination) : n \in DOMAIN f}
        from(m) == CHOOSE n \in DOMAIN f : Renamed(n, source, destination) = m
    IN  IF ~Occupied(f, source) THEN Outcome(Err("NotFound"), f)
        ELSE IF Occupied(f, destination) THEN Outcome(Err("AlreadyExists"), f)
        ELSE IF \/ ~ValidPath(destination)
                \/ BlockedByFile(f, destination)
                \/ StartsWith(destination, source \o <<SLASH>>)
             THEN Outcome(Err("IoFailure"), f)
        ELSE Outcome(Ok(<<>>), [m \in moved |-> f[from(m)]])

\* The transport g: the remotes registered, and whether a fetch and a push went
\* through.  A failure names the call that failed in msg.
\* add_remote(uri); net: the transport succeeds
add_remote(g, uri, net) ==
    IF net THEN [res |-> "Ok", msg |-> "", git |-> [g EXCEPT !.remotes = @ \cup {uri}]]
    ELSE [res |-> "TransportFailure", msg |-> "add_remote", git |-> g]

\* fetch_from_remote(username, password)
fetch_from_remote(g, username, password, net) ==
    IF net THEN [res |-> "Ok", msg |-> "", git |-> [g EXCEPT !.fetched = TRUE]]
    ELSE [res |-> "TransportFailure", msg |-> "fetch", git |-> g]

\* push_to_remote(username, password)
push_to_remote(g, username, password, net) ==
    IF net THEN [res |-> "Ok", msg |-> "", git |-> [g EXCEPT !.pushed = TRUE]]
    ELSE [res |-> "TransportFailure", msg |-> "push", git |-> g]

(***************************************************************************)
(* src/sync.rs                                                             *)
(***************************************************************************)
GIT_CREDENTIAL == <<"c", "o", "n", "f", "i", "g", "/", "r", "s", "p", "a", "s", "s">>

Uri == <<"u", "r", "i">>
Username == <<"u", "s", "e", "r", "n", "a", "m", "e">>

\* a transport call: the operation, its arguments and whether it succeeded
Call(op, a, b, res) == [op |-> op, a |-> a, b |-> b, ok |-> res = "Ok"]

\* get_git_credential reading the username off the line before (lines[1])
get_git_credential_line_before(f, password) ==
    LET unwrap(username, lines) ==
            IF username = <<>> THEN Err("Panic") ELSE Ok(<<username[2], lines[1]>>)
        index(lines) ==
            IF Len(lines) < 2 THEN Err("Panic")
            ELSE unwrap(SplitOnce(lines[2], EQ), lines)
        of(credential) ==
            IF credential.res # "Ok" THEN Err(credential.res)
            ELSE index(Lines(credential.v))
    IN  of(get_credential(f, GIT_CREDENTIAL, password, TRUE))

\* get_git_credential: Ok(<<username, token>>), an error of get_credential, or a
\* panic (lines[2] out of bounds, unwrap of None)
get_git_credential(f, password) ==
    LET unwrap(username, lines) ==
            IF username = <<>> THEN Err("Panic") ELSE Ok(<<username[2], lines[1]>>)
        index(lines) ==
            IF Len(lines) < 3 THEN Err("Panic")
            ELSE unwrap(SplitOnce(lines[3], EQ), lines)
        of(credential) ==
            IF credential.res # "Ok" THEN Err(credential.res)
            ELSE index(Lines(credential.v))
    IN  of(get_credential(f, GIT_CREDENTIAL, password, TRUE))

\* set_remote registering the remote before it inserts the record
set_remote_add_first(f, g, username, password, uri, engine, net) ==
    LET inserted(add, ins) ==
            [res |-> IF add.res # "Ok" THEN add.res ELSE ins.res,
             msg |-> add.msg, fs |-> IF add.res # "Ok" THEN f ELSE ins.fs,
             git |-> add.git,
             calls |-> <<Call("add_remote", uri, <<>>, add.res)>>]
    IN  inserted(add_remote(g, uri, net),
                 insert_credential(f, GIT_CREDENTIAL, password,
                                   Some(<<<<Uri, uri>>, <<Username, username>>>>),
                                   engine))

\* set_remote taking the record back when add_remote fails
set_remote_rollback(f, g, username, password, uri, engine, net) ==
    LET added(ins, add) ==
            [res |-> add.res, msg |-> add.msg,
             fs |-> IF add.res # "Ok" THEN f ELSE ins.fs, git |-> add.git,
             calls |-> <<Call("add_remote", uri, <<>>, add.res)>>]
        inserted(ins) ==
            IF ins.res # "Ok"
            THEN [res |-> ins.res, msg |-> "", fs |-> ins.fs, git |-> g, calls |-> <<>>]
            ELSE added(ins, add_remote(g, uri, net))
    IN  inserted(insert_credential(f, GIT_CREDENTIAL, password,
                                   Some(<<<<Uri, uri>>, <<Username, username>>>>),
                                   engine))

\* set_remote: its result, the vault directory and the transport it leaves, and the
\* transport calls it made
set_remote(f, g, username, password, uri, engine, net) ==
    LET added(ins, add) ==
            [res |-> add.res, msg |-> add.msg, fs |-> ins.fs, git |-> add.git,
             calls |-> <<Call("add_remote", uri, <<>>, add.res)>>]
        inserted(ins) ==
            IF ins.res # "Ok"
            THEN [res |-> ins.res, msg |-> "", fs |-> ins.fs, git |-> g, calls |-> <<>>]
            ELSE added(ins, add_remote(g, uri, net))
    IN  inserted(insert_credential(f, GIT_CREDENTIAL, password,
                                   Some(<<<<Uri, uri>>, <<Username, username>>>>),
                                   engine))

\* sync_data going on to push after a failed fetch
sync_data_push_anyway(f, g, password, net_fetch, net_push) ==
    LET pushed(username, token, fetch, push) ==
            [res |-> push.res, msg |-> push.msg, git |-> push.git,
             calls |-> <<Call("fetch", username, token, fetch.res),
                         Call("push", username, token, push.res)>>]
        fetched(username, token, fetch) ==
            pushed(username, token, fetch,
                   push_to_remote(fetch.git, username, token, net_push))
        with(cred) ==
            IF cred.res # "Ok"
            THEN [res |-> cred.res, msg |-> "", git |-> g, calls |-> <<>>]
            ELSE fetched(cred.v[1], cred.v[2],
                         fetch_from_remote(g, cred.v[1], cred.v[2], net_fetch))
    IN  with(get_git_credential(f, password))

\* sync_data going on with empty credentials when the record cannot be read
sync_data_default_credential(f, g, password, net_fetch, net_push) ==
    LET pushed(username, token, push) ==
            [res |-> push.res, msg |-> push.msg, git |-> push.git,
             calls |-> <<Call("fetch", username, token, "Ok"),
                         Call("push", username, token, push.res)>>]
        fetched(username, token, fetch) ==
            IF fetch.res # "Ok"
            THEN [res |-> fetch.res, msg |-> fetch.msg, git |-> fetch.git,
                  calls |-> <<Call("fetch", username, token, fetch.res)>>]
            ELSE pushed(username, token,
                        push_to_remote(fetch.git, username, token, net_push))
        with(cred) ==
            IF cred.res # "Ok"
            THEN fetched(<<>>, <<>>, fetch_from_remote(g, <<>>, <<>>, net_fetch))
            ELSE fetched(cred.v[1], cred.v[2],
                         fetch_from_remote(g, cred.v[1], cred.v[2], net_fetch))
    IN  with(get_git_credential(f, password))

\* sync_data: its result, the transport it leaves and the transport calls it made
sync_data(f, g, password, net_fetch, net_push) ==
    LET pushed(username, token, push) ==
            [res |-> push.res, msg |-> push.msg, git |-> push.git,
             calls |-> <<Call("fetch", username, token, "Ok"),
                         Call("push", username, token, push.res)>>]
        fetched(username, token, fetch) ==
            IF fetch.res # "Ok"
            THEN [res |-> fetch.res, msg |-> fetch.msg, git |-> fetch.git,
                  calls |-> <<Call("fetch", username, token, fetch.res)>>]
            ELSE pushed(username, token,
                        push_to_remote(fetch.git, username, token, net_push))
        with(cred) ==
            IF cred.res # "Ok"
            THEN [res |-> cred.res, msg |-> "", git |-> g, calls |-> <<>>]
            ELSE fetched(cred.v[1], cred.v[2],
                         fetch_from_remote(g, cred.v[1], cred.v[2], net_fetch))
    IN  with(get_git_credential(f, password))

(***************************************************************************)
(* src/main.rs: one action per command.  last is what the command just run *)
(* was given and what it did.                                              *)
(***************************************************************************)
Whitespace == {" ", LF, CR}

\* str::trim
RECURSIVE TrimStart(_)
TrimStart(s) ==
    IF Len(s) > 0 /\ s[1] \in Whitespace THEN TrimStart(Tail(s)) ELSE s

RECURSIVE TrimEnd(_)
TrimEnd(s) ==
    IF Len(s) > 0 /\ s[Len(s)] \in Whitespace THEN TrimEnd(Pop(s)) ELSE s

Trim(s) == TrimEnd(TrimStart(s))

\* generate_password(length)
generate_password(length) == [i \in 1..length |-> "x"]

\* cmd: the command; args: its arguments as typed; accepted: the value parser
\* passed the path argument (TRUE when the command has none); value: the path the
\* command got; possible: the valid values shown on rejection; dispatched: the
\* rspass_core operation was called; res, msg: its result; calls: the transport
\* calls made; out: what the command printed of the vault
Ran(cmd, args, p, dispatched, res, msg, calls, out) ==
    [cmd |-> cmd, args |-> args, accepted |-> p.ok, value |-> p.value,
     possible |-> p.possible, dispatched |-> dispatched, res |-> res, msg |-> msg,
     calls |-> calls, out |-> out]

\* the outcome of a command whose path argument the value parser rejected
Rejected(cmd, args, p) ==
    Ran(cmd, args, p, FALSE, "InvalidValue", "", <<>>, <<>>)

\* a command without a validated path argument
NoParser == [ok |-> TRUE, value |-> <<>>, possible |-> <<>>]

\* Commands::Syncronization(SyncCommands::Config)
SyncConfig(uri, username, password, engine, net) ==
    LET done(r) ==
            /\ fs' = r.fs
            /\ git' = r.git
            /\ last' = Ran("sync config", <<uri, username, password>>, NoParser, TRUE,
                           r.res, r.msg, r.calls, <<>>)
    IN  /\ Cardinality(DOMAIN fs) < MaxFiles
        /\ done(set_remote(fs, git, Trim(username), password, Trim(uri), engine, net))

\* Commands::Syncronization(SyncCommands::Exec)
SyncExec(password, net_fetch, net_push) ==
    LET done(r) ==
            /\ git' = r.git
            /\ last' = Ran("sync exec", <<password>>, NoParser, TRUE, r.res, r.msg,
                           r.calls, <<>>)
    IN  /\ fs' = fs
        /\ done(sync_data(fs, git, password, net_fetch, net_push))

\* Commands::Insert
Insert(name, metadata, typed, length, engine) ==
    LET password == IF typed = <<>> THEN generate_password(length) ELSE Trim(typed)
        done(r) ==
            /\ fs' = r.fs
            /\ git' = git
            /\ last' = Ran("insert", <<name, metadata, typed>>, NoParser, TRUE, r.res,
                           "", <<>>, <<>>)
    IN  /\ Cardinality(DOMAIN fs) < MaxFiles
        /\ done(insert_credential(fs, name, password, metadata, engine))

\* Commands::Get
Get(name, full, password) ==
    LET args == <<name, full, password>>
        done(p, r) == Ran("get", args, p, TRUE, r.res, "", <<>>, r.v)
        parsed(p) ==
            IF ~p.ok THEN Rejected("get", args, p)
            ELSE done(p, get_credential(fs, p.value, Trim(password), full))
    IN  /\ fs' = fs
        /\ git' = git
        /\ last' = parsed(parse(files(fs), name))

\* Commands::Edit
Edit(name, new_password, add_metadata, remove_metadata, pgp_password, engine) ==
    LET args == <<name, new_password, add_metadata, remove_metadata, pgp_password>>
        adds == IF add_metadata.some
                THEN [i \in 1..Len(add_metadata.v) |->
                         <<add_metadata.v[i][1], Some(add_metadata.v[i][2])>>]
                ELSE <<>>
        removes == IF remove_metadata.some
                   THEN [i \in 1..Len(remove_metadata.v) |-> <<remove_metadata.v[i], None>>]
                   ELSE <<>>
        metadata == adds \o removes
        done(p, r) ==
            /\ r.res = "Ok" => Len(decode(r.fs[p.value].plain).v.meta) <= MaxMeta
            /\ fs' = r.fs
            /\ last' = Ran("edit", args, p, TRUE, r.res, "", <<>>, <<>>)
        parsed(p) ==
            IF ~p.ok
            THEN /\ fs' = fs
                 /\ last' = Rejected("edit", args, p)
            ELSE done(p, edit_credential(fs, p.value, Trim(pgp_password), new_password,
                                         IF metadata = <<>> THEN None ELSE Some(metadata),
                                         engine))
    IN  /\ git' = git
        /\ parsed(parse(files(fs), name))

\* Commands::Rm
Rm(name) ==
    LET done(p, r) ==
            /\ fs' = r.fs
            /\ last' = Ran("rm", <<name>>, p, TRUE, r.res, "", <<>>, <<>>)
        parsed(p) ==
            IF ~p.ok
            THEN /\ fs' = fs
                 /\ last' = Rejected("rm", <<name>>, p)
            ELSE done(p, remove_credential(fs, p.value))
    IN  /\ git' = git
        /\ parsed(parse(files(fs), name))

\* Commands::Mv
Mv(target, destination) ==
    LET args == <<target, destination>>
        done(p, r) ==
            /\ fs' = r.fs
            /\ last' = Ran("mv", args, p, TRUE, r.res, "", <<>>, <<>>)
        parsed(p) ==
            IF ~p.ok
            THEN /\ fs' = fs
                 /\ last' = Rejected("mv", args, p)
            ELSE done(p, move_credential(fs, p.value, destination))
    IN  /\ git' = git
        /\ parsed(parse(files(fs), target))

\* Commands::Ls
Ls(name) ==
    LET printed(values) == IF values.some THEN values.v ELSE <<>>
        done(p, values) == Ran("ls", <<name>>, p, TRUE, "Ok", "", <<>>, printed(values))
        parsed(p) ==
            IF ~p.ok THEN Rejected("ls", <<name>>, p)
            ELSE done(p, list_credentials(fs, Some(p.value), FALSE))
        root(values) == Ran("ls", <<name>>, NoParser, TRUE, "Ok", "", <<>>, printed(values))
    IN  /\ fs' = fs
        /\ git' = git
        /\ last' = IF name.some THEN parsed(parse(dirs(fs), name.v))
                   ELSE root(list_credentials(fs, None, FALSE))

(***************************************************************************)
(* The vault after init: the version-control metadata directory and no     *)
(* credential; no remote registered.                                       *)
(***************************************************************************)
GitHead == <<".", "g", "i", "t", "/", "H", "E", "A", "D">>

Init ==
    /\ fs = (GitHead :> [kind |-> "git", plain |-> <<>>])
    /\ git = [remotes |-> {}, fetched |-> FALSE, pushed |-> FALSE]
    /\ last = Ran("none", <<>>, NoParser, FALSE, "Ok", "", <<>>, <<>>)

\* the default of Insert's length argument
DefaultLength == 10

(***************************************************************************)
(* The inputs of the commands.                                             *)
(***************************************************************************)
\* the names credentials are inserted under
Names ==
    {<<"a", "/", "b">>, <<"a", "/", "c">>, <<"d">>, <<"a", "/", ".", "g", "i", "t">>}

\* the path arguments typed for get, rm, mv and ls
Queries ==
    {<<"a", "/", "b">>, <<"a", "/", "b", "/">>, <<"a", "/", "x">>, <<"a">>, <<"d">>,
     <<"d", "/", "/">>, <<"x">>, <<".", "g", "i", "t">>}

\* the path arguments typed for edit
EditQueries == {<<"a", "/", "b">>, <<"a", "/">>}

\* the destinations typed for mv
Destinations == {<<"z">>, <<"d">>}

\* the secrets typed for insert: none (one is generated), or one with a blank after it
Typed == {<<>>, <<"s", " ">>}

\* the passphrases typed: the right one and a wrong one
Passphrases == {Passphrase, <<"w">>}

\* an optional argument
OneOf(S) == {None} \cup {Some(x) : x \in S}

\* what insert is given: a name, and a typed secret or none; the encryption engine
\* fails on some
InsertInputs == {i \in Names \X Typed \X BOOLEAN : i[3] \/ i[2] # <<>>}

\* what get is given: the secret with the right passphrase, the full record of an
\* inserted name with the wrong one
GetInputs ==
    (Queries \X {FALSE} \X {Passphrase}) \cup (Names \X {TRUE} \X (Passphrases \ {Passphrase}))

\* what mv is given
MvInputs ==
    (Queries \X {<<"z">>}) \cup ({<<"a">>, <<"a", "/", "b">>} \X Destinations)

\* the command surface over ordinary credentials
Next ==
    \/ \E i \in InsertInputs : Insert(i[1], None, i[2], DefaultLength, i[3])
    \/ \E i \in GetInputs : Get(i[1], i[2], i[3])
    \/ \E name \in EditQueries : Edit(name, Some(<<"s">>), None, None, Passphrase, TRUE)
    \/ \E name \in Queries : Rm(name)
    \/ \E i \in MvInputs : Mv(i[1], i[2])
    \/ \E name \in OneOf(Queries) : Ls(name)

Spec == Init /\ [][Next]_vars

\* what is typed at sync config: a line each for uri and username, and the token
UriLines == {<<"g", LF>>}
UsernameLines == {<<"b", LF>>, <<"v", "=", "w", LF>>, <<" ", LF>>}
Tokens == {<<"t">>}

\* the metadata entries and keys typed at edit
Other == <<"o">>
Entries == {<<Uri, <<"g">>>>, <<Username, <<"b">>>>, <<Other, <<"z">>>>}
Keys == {Uri, Username, Other}

\* an optional list argument: absent, or one value
Listed(S) == {None} \cup {Some(<<x>>) : x \in S}

\* the sync coordinator, with edit and rm of its record
NextSync ==
    \/ \E uri \in UriLines, username \in UsernameLines, password \in Tokens,
          engine \in BOOLEAN, net \in BOOLEAN :
           SyncConfig(uri, username, password, engine, net)
    \/ \E password \in Passphrases, net_fetch \in BOOLEAN, net_push \in BOOLEAN :
           SyncExec(password, net_fetch, net_push)
    \/ \E new_password \in {None, Some(<<"n">>)}, add \in Listed(Entries),
          remove \in Listed(Keys) :
           Edit(GIT_CREDENTIAL, new_password, add, remove, Passphrase, TRUE)
    \/ Rm(GIT_CREDENTIAL)

SpecSync == Init /\ [][NextSync]_vars

(***************************************************************************)
(* The sync coordinator: properties of SpecSync.                           *)
(***************************************************************************)
SyncRan == last.cmd = "sync exec"

\* C1: a sync calls fetch, then push, each at most once; push only after its fetch
\* succeeded; a failed fetch ends the sync with the fetch error and no push; a failed
\* push ends it with the push error, the fetch staying done.
SyncFetchesThenPushes ==
    SyncRan =>
        /\ Len(last.calls) <= 2
        /\ \A i \in 1..Len(last.calls) :
               last.calls[i].op = (IF i = 1 THEN "fetch" ELSE "push")
        /\ Len(last.calls) = 2 => last.calls[1].ok /\ git.fetched
        /\ (Len(last.calls) >= 1 /\ ~last.calls[1].ok) =>
               /\ Len(last.calls) = 1
               /\ last.res = "TransportFailure"
               /\ last.msg = "fetch"
        /\ (Len(last.calls) = 2 /\ ~last.calls[2].ok) =>
               /\ last.res = "TransportFailure"
               /\ last.msg = "push"
        /\ (Len(last.calls) = 2 /\ last.calls[2].ok) => last.res = "Ok"

\* a sync whose fetch went through and whose push failed
SyncPushFailed ==
    /\ SyncRan
    /\ Len(last.calls) = 2
    /\ last.msg = "push"
    /\ git.fetched
    /\ ~git.pushed

\* C2, as stated: without a record at config/rspass a sync fails with NotConfigured
\* and calls neither fetch nor push.
SyncNotConfigured ==
    (SyncRan /\ GIT_CREDENTIAL \notin DOMAIN fs) =>
        /\ last.res = "NotConfigured"
        /\ last.calls = <<>>

\* C2, amended: without a record at config/rspass a sync fails with the error of the
\* store's get, NotFound, and calls neither fetch nor push.
SyncNotFound ==
    (SyncRan /\ GIT_CREDENTIAL \notin DOMAIN fs) =>
        /\ last.res = "NotFound"
        /\ last.res = get_credential(fs, GIT_CREDENTIAL, last.args[1], TRUE).res
        /\ last.calls = <<>>

\* a sync run on a vault without the record
SyncWithoutRecord ==
    /\ SyncRan
    /\ GIT_CREDENTIAL \notin DOMAIN fs
    /\ last.args[1] = Passphrase

\* C3: set_remote on an occupied config/rspass fails with AlreadyExists, leaves the
\* record as it is and does not call add_remote; add_remote is called only in a
\* set_remote whose insert at config/rspass succeeded.
SetRemoteOccupied ==
    [][last'.cmd = "sync config" =>
          /\ GIT_CREDENTIAL \in DOMAIN fs =>
                 /\ last'.res = "AlreadyExists"
                 /\ fs' = fs
                 /\ last'.calls = <<>>
          /\ last'.calls # <<>> =>
                 /\ GIT_CREDENTIAL \notin DOMAIN fs
                 /\ GIT_CREDENTIAL \in DOMAIN fs'
                 /\ last'.calls = <<Call("add_remote", Trim(last'.args[1]), <<>>,
                                         last'.res)>>]_vars

\* a set_remote refused because the record exists
SetRemoteRefused ==
    /\ last.cmd = "sync config"
    /\ last.res = "AlreadyExists"
    /\ last.calls = <<>>
    /\ GIT_CREDENTIAL \in DOMAIN fs

\* the record set_remote(username, token, uri) stores
StoredBy(username, token, uri) ==
    encrypt(encode([secret |-> token,
                    meta   |-> <<<<Uri, uri>>, <<Username, username>>>>]).v)

\* the usernames, tokens and uris set_remote and edit can leave in the record
UsernamesSet == {Trim(l) : l \in UsernameLines} \cup {e[2] : e \in {x \in Entries : x[1] = Username}}
TokensSet == Tokens \cup {<<"n">>}
UrisSet == {Trim(l) : l \in UriLines}

\* C4: with the record at config/rspass as set_remote(username, token, uri) stored it,
\* a sync with the right passphrase calls fetch, and hands every transport call
\* exactly (username, token).
SyncRoundTrip ==
    \A username \in UsernamesSet, token \in TokensSet, uri \in UrisSet :
        (/\ SyncRan
         /\ last.args[1] = Passphrase
         /\ GIT_CREDENTIAL \in DOMAIN fs
         /\ fs[GIT_CREDENTIAL] = StoredBy(username, token, uri)) =>
            /\ last.calls # <<>>
            /\ \A i \in 1..Len(last.calls) :
                   /\ last.calls[i].a = username
                   /\ last.calls[i].b = token

\* a sync that fetched and pushed as the user v=w set by set_remote
SyncedAsSetRemote ==
    /\ SyncRan
    /\ GIT_CREDENTIAL \in DOMAIN fs
    /\ fs[GIT_CREDENTIAL] = StoredBy(<<"v", "=", "w">>, <<"t">>, <<"g">>)
    /\ Len(last.calls) = 2
    /\ last.calls[2].a = <<"v", "=", "w">>
    /\ last.calls[2].b = <<"t">>

\* C9, as stated: whatever set_remote and edit left at config/rspass, a sync returns
\* an error, or authenticates with the record's secret and the value of its username
\* key; it never panics.
SyncUsesUsernameKey ==
    SyncRan =>
        /\ last.res # "Panic"
        /\ last.calls # <<>> =>
               LET record == decode(fs[GIT_CREDENTIAL].plain).v
               IN  \A i \in 1..Len(last.calls) :
                       /\ <<last.calls[i].a>> = Lookup(record.meta, Username)
                       /\ last.calls[i].b = record.secret

\* C10: a set_remote whose insert succeeded and whose add_remote failed returns the
\* transport error and leaves the record stored and the uri unregistered; while the
\* record exists a set_remote fails with AlreadyExists and registers nothing.
SetRemoteNoRollback ==
    [][last'.cmd = "sync config" =>
          /\ (GIT_CREDENTIAL \notin DOMAIN fs /\ last'.res = "TransportFailure") =>
                 /\ last'.msg = "add_remote"
                 /\ GIT_CREDENTIAL \in DOMAIN fs'
                 /\ fs'[GIT_CREDENTIAL] =
                        StoredBy(Trim(last'.args[2]), last'.args[3], Trim(last'.args[1]))
                 /\ git'.remotes = git.remotes
          /\ GIT_CREDENTIAL \in DOMAIN fs =>
                 /\ last'.res = "AlreadyExists"
                 /\ \A i \in 1..Len(last'.calls) : last'.calls[i].op # "add_remote"
                 /\ git'.remotes = git.remotes]_vars

\* a record stored by a set_remote whose add_remote failed, with no remote registered
RecordWithoutRemote ==
    /\ last.cmd = "sync config"
    /\ last.res = "TransportFailure"
    /\ GIT_CREDENTIAL \in DOMAIN fs
    /\ git.remotes = {}

(***************************************************************************)
(* The path validator, the listing and mv: properties of Spec.             *)
(***************************************************************************)
\* the paths of a sequence of items
Paths(items) == {items[i].path : i \in 1..Len(items)}

\* a query without its one trailing "/"
Normalized(q) ==
    IF Len(q) > 0 /\ q[Len(q)] = SLASH THEN SubSeq(q, 1, Len(q) - 1) ELSE q

\* what comes before the last "/" of a query, nothing when it has none
BasePrefix(q) ==
    LET slashes == {i \in 1..Len(q) : q[i] = SLASH}
    IN  IF slashes = {} THEN <<>>
        ELSE SubSeq(q, 1, (CHOOSE i \in slashes : \A j \in slashes : j <= i) - 1)

\* the commands with a validated path argument, and the argument last typed
PathCommands == {"get", "rm", "edit", "mv", "ls"}
Validated ==
    /\ last.cmd \in PathCommands
    /\ last.cmd = "ls" => last.args[1].some
TypedPath == IF last.cmd = "ls" THEN last.args[1].v ELSE last.args[1]

\* the snapshot the value parser of the last command was built from
SnapshotOf(f) == IF last.cmd = "ls" THEN dirs(f) ELSE files(f)

AllQueries == Queries \cup EditQueries

\* C5: the value parser accepts a query exactly when, one trailing "/" stripped, it
\* is the path of an item of the snapshot; an accepted command gets the stripped
\* query, and a rejected one never calls its store operation.
ParserAcceptsKnownPaths ==
    LET agrees(snapshot) ==
            \A q \in AllQueries :
                LET checked(r) ==
                        /\ r.ok <=> Normalized(q) \in Paths(snapshot)
                        /\ r.ok => r.value = Normalized(q)
                IN  checked(parse(snapshot, q))
    IN  /\ agrees(files(fs))
        /\ agrees(dirs(fs))
        /\ Validated =>
               /\ last.dispatched <=> last.accepted
               /\ last.accepted => last.value = Normalized(TypedPath)
               /\ ~last.accepted =>
                      /\ Normalized(TypedPath) \notin Paths(SnapshotOf(fs))
                      /\ last.res = "InvalidValue"

\* a get of a/b typed with a trailing "/", accepted as a/b
TrailingSlashAccepted ==
    /\ last.cmd = "get"
    /\ last.args[1] = <<"a", "/", "b", "/">>
    /\ last.accepted
    /\ last.dispatched
    /\ last.value = <<"a", "/", "b">>

\* C6: the values suggested for a rejected query are the items of the snapshot whose
\* path starts with the base prefix of the query (one trailing "/" stripped), all of
\* them when the query has one segment; with a/b, a/c and d, a/x suggests a/b and a/c.
SuggestionsScopedByBase ==
    LET scoped(snapshot, value, possible) ==
            /\ Range(possible) =
                   {item \in Range(snapshot) : StartsWith(item.path, BasePrefix(value))}
            /\ SLASH \notin Range(value) => possible = snapshot
        agrees(snapshot) ==
            \A q \in AllQueries :
                LET checked(r) == ~r.ok => scoped(snapshot, Normalized(q), r.possible)
                IN  checked(parse(snapshot, q))
        example(snapshot) ==
            Paths(snapshot) = {<<"a", "/", "b">>, <<"a", "/", "c">>, <<"d">>} =>
                Paths(parse(snapshot, <<"a", "/", "x">>).possible) =
                    {<<"a", "/", "b">>, <<"a", "/", "c">>}
    IN  /\ agrees(files(fs))
        /\ agrees(dirs(fs))
        /\ example(files(fs))
        /\ (Validated /\ ~last.accepted) =>
               scoped(SnapshotOf(fs), Normalized(TypedPath), last.possible)

\* with a/b, a/c and d in the vault, a get of a/x rejected with a/b and a/c suggested
SuggestedWithinA ==
    /\ Paths(files(fs)) = {<<"a", "/", "b">>, <<"a", "/", "c">>, <<"d">>}
    /\ last.cmd = "get"
    /\ last.args[1] = <<"a", "/", "x">>
    /\ ~last.accepted
    /\ Paths(last.possible) = {<<"a", "/", "b">>, <<"a", "/", "c">>}

\* a file of the version-control metadata directory at the vault root
UnderGit(n) == n = DotGit \/ StartsWith(n, DotGit \o <<SLASH>>)

\* the directories a file lives in
DirsOf(n) == {SubSeq(n, 1, i - 1) : i \in {j \in 1..Len(n) : n[j] = SLASH}}

\* how many times an item is in a sequence
Count(items, item) == Cardinality({i \in 1..Len(items) : items[i] = item})

\* the entries right below a directory of the vault
Children(f, d) ==
    LET in_d(x) == SLASH \in Range(x) /\ BasePrefix(x) = d
    IN  {File(n) : n \in {m \in DOMAIN f : in_d(m)}}
            \cup {Dir(e) : e \in {x \in UNION {DirsOf(m) : m \in DOMAIN f} : in_d(x)}}

\* C7, as stated: the recursive listing of the vault has every File and every Dir
\* below the root once, and nothing of the .git directory at the root; the listing of
\* a directory has its immediate children.
ListsEveryEntryOnce ==
    LET whole(listed) ==
            \A n \in DOMAIN fs :
                IF UnderGit(n)
                THEN \A i \in 1..Len(listed) : ~UnderGit(listed[i].path)
                ELSE /\ Count(listed, File(n)) = 1
                     /\ \A d \in DirsOf(n) : Count(listed, Dir(d)) = 1
        below(d, listed) ==
            /\ listed.some
            /\ Range(listed.v) = Children(fs, d)
    IN  /\ whole(all(fs))
        /\ \A n \in DOMAIN fs : \A d \in DirsOf(n) :
               ~UnderGit(d) => below(d, list_credentials(fs, Some(d), FALSE))

\* C8, as stated: a mv whose source is an existing Dir of the vault (not the .git
\* directory) and whose destination is free
\* reaches the store's move, and then every File below the source is at the
\* destination with its content, and no longer below the source.
MvMovesDir ==
    [][(/\ last'.cmd = "mv"
        /\ IsDir(fs, Normalized(last'.args[1]))
        /\ ~UnderGit(Normalized(last'.args[1]))
        /\ ~Occupied(fs, last'.args[2])) =>
           /\ last'.dispatched
           /\ \A n \in DOMAIN fs :
                  StartsWith(n, Normalized(last'.args[1]) \o <<SLASH>>) =>
                      /\ n \notin DOMAIN fs'
                      /\ Renamed(n, Normalized(last'.args[1]), last'.args[2])
                             \in DOMAIN fs'
                      /\ fs'[Renamed(n, Normalized(last'.args[1]), last'.args[2])]
                             = fs[n]]_vars

====
